---------------------------- MODULE Spec2Model ----------------------------
(***************************************************************************)
(* A model of three pieces of the installer:                               *)
(*   - pyanaconda/modules/payloads/payload/dnf/repositories.py             *)
(*       driver disk repositories, treeinfo repositories and their merge   *)
(*       into the list of repositories;                                    *)
(*   - pyanaconda/modules/payloads/source/url/url.py                       *)
(*       the URL source module and its kickstart conversion;               *)
(*   - pyanaconda/ui/helpers.py                                            *)
(*       the source switching and input check mixins.                      *)
(*                                                                         *)
(* Every part has its own specification over the same variables; the       *)
(* variables of the other parts stay at their initial values.              *)
(***************************************************************************)
EXTENDS Integers, Sequences, FiniteSets, TLC

VARIABLES
    \* repositories.py: update_treeinfo_repositories and its caller
    repositories,           \* the caller's list of repositories
    treeinfo_md,            \* the tree metadata the treeinfo repositories are generated from
    treeinfo_repositories,  \* the caller's list of treeinfo repositories after the last call
    passes,                 \* number of update_treeinfo_repositories calls so far
    \* url.py: URLSourceModule and the kickstart data it is converted to
    repo_configuration,     \* URLSourceModule._repo_configuration
    subscribers,            \* the callbacks connected to repo_configuration_changed
    notifications,          \* the callbacks called by the last call, with what they saw
    set_result,             \* how the last set_repo_configuration call ended
    last_op,                \* the last operation of the source module
    ks_data,                \* the kickstart data (data.url)
    ks_state,               \* what was done with the kickstart data so far
    \* repositories.py: generate_driver_disk_repositories and the file system
    can_use_driver_disks,   \* conf.system.can_use_driver_disks
    dd_dirs,                \* the directories DD-1, DD-2, ... under the path
    dd_layout,              \* the directories as they were when the call began
    dd_pc,                  \* where the call is: idle, scan, done or failed
    dd_i,                   \* the loop variable i
    dd_repositories,        \* the local list of repositories
    dd_result,              \* the returned list
    dd_checked,             \* the indices whose directory the call looked for
    createrepo_calls,       \* the paths createrepo_c was run on during the call
    \* helpers.py: SourceSwitchHandler, the payload and the storage it acts on
    sources,                \* the sources attached to the payload
    protected_devices,      \* the devices marked as protected
    switch_calls,           \* what the last set_source_* call called, in order
    \* helpers.py: InputCheckHandler and its InputCheck objects
    check_list,             \* InputCheckHandler._check_list
    set_status_calls,       \* the checks set_status was called with, in order
    check_op                \* the last operation on the handler or on a check

reposVars == <<repositories, treeinfo_md, treeinfo_repositories, passes>>

urlVars == <<repo_configuration, subscribers, notifications, set_result, last_op,
             ks_data, ks_state>>

ddVars == <<can_use_driver_disks, dd_dirs, dd_layout, dd_pc, dd_i, dd_repositories,
            dd_result, dd_checked, createrepo_calls>>

switchVars == <<sources, protected_devices, switch_calls>>

checkVars == <<check_list, set_status_calls, check_op>>

vars == <<reposVars, urlVars, ddVars, switchVars, checkVars>>

\* The variables a part leaves alone.
notReposVars == <<urlVars, ddVars, switchVars, checkVars>>
notUrlVars == <<reposVars, ddVars, switchVars, checkVars>>
notDdVars == <<reposVars, urlVars, switchVars, checkVars>>
notSwitchVars == <<reposVars, urlVars, ddVars, checkVars>>
notCheckVars == <<reposVars, urlVars, ddVars, switchVars>>

-----------------------------------------------------------------------------
(* Bounds of the model. *)

\* The longest list of repositories the update starts from.
MaxRepos == 2

\* The longest list of tree metadata (and so of treeinfo repositories).
MaxTreeinfo == 2

\* The number of update passes over one list.
MaxPasses == 2

\* The number of callbacks connected to repo_configuration_changed.
MaxSubscribers == 2

\* The highest index of a driver disk directory.
MaxDriverDisks == 4

\* The number of checks added to one handler.
MaxChecks == 2

\* The number of calls of set_status that are recorded.
MaxSetStatus == 2

-----------------------------------------------------------------------------
(* pyanaconda.core.constants *)

REPO_ORIGIN_USER == "USER"
REPO_ORIGIN_TREEINFO == "TREEINFO"

URL_TYPE_BASEURL == "BASEURL"
URL_TYPE_MIRRORLIST == "MIRRORLIST"
URL_TYPE_METALINK == "METALINK"
URL_TYPES == {URL_TYPE_BASEURL, URL_TYPE_MIRRORLIST, URL_TYPE_METALINK}

-----------------------------------------------------------------------------
(* Helpers. *)

SeqsUpTo(S, n) == UNION {[1..k -> S] : k \in 0..n}

Range(s) == {s[i] : i \in DOMAIN s}

-----------------------------------------------------------------------------
(* RepoConfigurationData: a freshly constructed record. *)

RepoConfigurationData ==
    [name |-> "",
     url |-> "",
     type |-> URL_TYPE_BASEURL,
     origin |-> REPO_ORIGIN_USER,
     enabled |-> TRUE,
     installation_enabled |-> FALSE,
     proxy |-> "",
     ssl_verification_enabled |-> TRUE,
     ssl_configuration |-> [ca_cert_path |-> "",
                            client_cert_path |-> "",
                            client_key_path |-> ""]]

-----------------------------------------------------------------------------
(* The kickstart data of the url command (data.url), as the kickstart       *)
(* parser creates it: an option that was not given is None.                 *)

None == "<None>"

\* Python's truth value of an optional string.
Truthy(v) == v # None /\ v # ""

FreshKickstartData ==
    [url |-> None,
     mirrorlist |-> None,
     metalink |-> None,
     proxy |-> "",
     noverifyssl |-> FALSE,
     sslcacert |-> None,
     sslclientcert |-> None,
     sslclientkey |-> None,
     seen |-> FALSE]

-----------------------------------------------------------------------------
(* The initial values: the state after construction. *)

\* No list of repositories was updated yet.
ReposIdle ==
    /\ repositories = <<>>
    /\ treeinfo_md = <<>>
    /\ treeinfo_repositories = <<>>
    /\ passes = 0

\* URLSourceModule.__init__ (lines 40-43), and kickstart data nothing was
\* written to.
UrlIdle ==
    /\ repo_configuration = RepoConfigurationData
    /\ subscribers = <<>>
    /\ notifications = <<>>
    /\ set_result = "none"
    /\ last_op = "__init__"
    /\ ks_data = FreshKickstartData
    /\ ks_state = "fresh"

\* generate_driver_disk_repositories was not called; there is no directory.
DdIdle ==
    /\ can_use_driver_disks = TRUE
    /\ dd_dirs = <<>>
    /\ dd_layout = <<>>
    /\ dd_pc = "idle"
    /\ dd_i = 0
    /\ dd_repositories = <<>>
    /\ dd_result = <<>>
    /\ dd_checked = {}
    /\ createrepo_calls = <<>>

\* SourceSwitchHandler.__init__ (lines 83-85): no set_source_* call was
\* made; the payload has no source and no device is protected.
SwitchIdle ==
    /\ sources = <<>>
    /\ protected_devices = {}
    /\ switch_calls = <<>>

\* InputCheckHandler.__init__ (lines 259-260): no check was added.
ChecksIdle ==
    /\ check_list = <<>>
    /\ set_status_calls = <<>>
    /\ check_op = [op |-> "__init__", check |-> 0]

NotReposInit == UrlIdle /\ DdIdle /\ SwitchIdle /\ ChecksIdle
NotUrlInit == ReposIdle /\ DdIdle /\ SwitchIdle /\ ChecksIdle
NotDdInit == ReposIdle /\ UrlIdle /\ SwitchIdle /\ ChecksIdle
NotSwitchInit == ReposIdle /\ UrlIdle /\ DdIdle /\ ChecksIdle
NotCheckInit == ReposIdle /\ UrlIdle /\ DdIdle /\ SwitchIdle

-----------------------------------------------------------------------------
(* repositories.py: generate_treeinfo_repository *)

generate_treeinfo_repository(repo_data, repo_md) ==
    [repo_data EXCEPT
        !.origin = REPO_ORIGIN_TREEINFO,
        !.name = repo_md.name,
        !.type = URL_TYPE_BASEURL,
        !.url = repo_md.url,
        !.enabled = repo_md.enabled,
        !.installation_enabled = FALSE]

-----------------------------------------------------------------------------
(* repositories.py: update_treeinfo_repositories *)

\* Lines 108-111: the names of the previously disabled treeinfo repositories.
DisabledNames(repos) ==
    {repos[i].name : i \in {j \in DOMAIN repos :
        repos[j].origin = REPO_ORIGIN_TREEINFO /\ ~repos[j].enabled}}

\* A bug: no newly generated treeinfo repository is disabled.
DisableTreeinfoNever(repos, treeinfo) ==
    treeinfo

\* Lines 113-115: the treeinfo repositories after the in-place disabling.
DisableTreeinfo(repos, treeinfo) ==
    [i \in DOMAIN treeinfo |->
        IF treeinfo[i].name \in DisabledNames(repos)
        THEN [treeinfo[i] EXCEPT !.enabled = FALSE]
        ELSE treeinfo[i]]

\* Lines 119-122: the non-empty urls of the repositories that are not treeinfo.
ExistingUrls(repos) ==
    {repos[i].url : i \in {j \in DOMAIN repos :
        repos[j].origin # REPO_ORIGIN_TREEINFO /\ repos[j].url # ""}}

\* A bug: no treeinfo repository is excluded.
ExcludeExistingNever(existing, treeinfo) ==
    treeinfo

\* Lines 124-127: the treeinfo repositories without the ones of an existing url.
ExcludeExisting(existing, treeinfo) ==
    SelectSeq(treeinfo, LAMBDA r : r.url \notin existing)

\* A bug: every previous treeinfo repository is kept.
RemoveTreeinfoKeepsAll(repos) ==
    repos

\* Lines 133-136: the repositories without the previous treeinfo repositories.
RemoveTreeinfo(repos) ==
    SelectSeq(repos, LAMBDA r : r.origin # REPO_ORIGIN_TREEINFO)

\* Lines 97-143: the returned list.
update_treeinfo_repositories(repos, treeinfo) ==
    RemoveTreeinfo(repos)
        \o ExcludeExisting(ExistingUrls(repos), DisableTreeinfo(repos, treeinfo))

-----------------------------------------------------------------------------
(* The inputs of the repository model. *)

RepoNames == {"A", "B"}
RepoUrls == {"", "u1"}

\* TreeInfoRepoMetadata: name, url, enabled.
TreeMetadata == [name : RepoNames, url : RepoUrls, enabled : BOOLEAN]

\* The repository the treeinfo repositories are derived from.
BaseRepository ==
    [RepoConfigurationData EXCEPT !.name = "base", !.url = "u0",
                                  !.proxy = "http://proxy:3128"]

\* A freshly generated list of treeinfo repositories.
GenerateTreeinfo(mds) ==
    [i \in DOMAIN mds |-> generate_treeinfo_repository(BaseRepository, mds[i])]

\* Repositories a list can hold before an update: specified by a user,
\* or generated from an earlier tree.
UserRepositories ==
    {[RepoConfigurationData EXCEPT !.name = n, !.url = u]
        : n \in RepoNames, u \in RepoUrls}

StaleTreeinfoRepositories ==
    {generate_treeinfo_repository(BaseRepository, md)
        : md \in {m \in TreeMetadata : m.url # ""}}

-----------------------------------------------------------------------------
(* The caller of update_treeinfo_repositories. *)

\* treeinfo = [generate_treeinfo_repository(base, md) for md in mds]
\* repositories = update_treeinfo_repositories(repositories, treeinfo)
UpdateFrom(mds) ==
    /\ passes < MaxPasses
    /\ LET treeinfo == GenerateTreeinfo(mds)
       IN /\ repositories' = update_treeinfo_repositories(repositories, treeinfo)
          /\ treeinfo_repositories' = DisableTreeinfo(repositories, treeinfo)
    /\ treeinfo_md' = mds
    /\ passes' = passes + 1
    /\ UNCHANGED notReposVars

-----------------------------------------------------------------------------
(* SpecReconcile: one list updated again and again from one tree. *)

ReconcileInit ==
    /\ repositories \in SeqsUpTo(UserRepositories \cup StaleTreeinfoRepositories, MaxRepos)
    /\ treeinfo_md \in SeqsUpTo(TreeMetadata, MaxTreeinfo)
    /\ treeinfo_repositories = <<>>
    /\ passes = 0
    /\ NotReposInit

\* The update is repeated with a list generated from the same tree metadata.
UpdateTreeinfoRepositories ==
    UpdateFrom(treeinfo_md)

ReconcileNext ==
    UpdateTreeinfoRepositories

SpecReconcile == ReconcileInit /\ [][ReconcileNext]_vars

-----------------------------------------------------------------------------
(* Claims about update_treeinfo_repositories, under SpecReconcile. *)

\* A step that calls update_treeinfo_repositories.
IsUpdateStep == passes' = passes + 1

\* A step that calls it again with a list generated from the same metadata.
IsRepeatedUpdateStep ==
    /\ IsUpdateStep
    /\ passes >= 1
    /\ treeinfo_md' = treeinfo_md

\* Tree metadata entries of one name agree on the enabled flag.
SameNameSameEnabled(mds) ==
    \A i, j \in DOMAIN mds :
        mds[i].name = mds[j].name => mds[i].enabled = mds[j].enabled

\* The list has a disabled treeinfo repository of this name.
HasDisabledTreeinfo(repos, name) ==
    \E j \in DOMAIN repos :
        /\ repos[j].origin = REPO_ORIGIN_TREEINFO
        /\ ~repos[j].enabled
        /\ repos[j].name = name

\* The list has a repository of another origin than treeinfo with this url.
HasOtherWithUrl(repos, url) ==
    \E j \in DOMAIN repos :
        /\ repos[j].origin # REPO_ORIGIN_TREEINFO
        /\ repos[j].url = url

\* Two records that differ at most in the enabled flag.
SameButEnabled(r1, r2) ==
    [r1 EXCEPT !.enabled = TRUE] = [r2 EXCEPT !.enabled = TRUE]

\* C1 as claimed: the update is idempotent for every list and every list of
\* treeinfo repositories: a second update with the same treeinfo
\* repositories returns the list it was given.
C1_IdempotentAlways ==
    [][IsRepeatedUpdateStep => repositories' = repositories]_vars

\* C1 as amended: the update is idempotent when the treeinfo repositories
\* of one name agree on the enabled flag: a second update with the same
\* treeinfo repositories returns the list it was given.
C1_Idempotent ==
    [][(IsRepeatedUpdateStep /\ SameNameSameEnabled(treeinfo_md))
            => repositories' = repositories]_vars

\* Two updates were made from a tree whose repository was forced to be
\* disabled and added.
C1_Witness ==
    /\ passes >= 2
    /\ SameNameSameEnabled(treeinfo_md)
    /\ \E i \in DOMAIN treeinfo_md :
        /\ treeinfo_md[i].enabled
        /\ ~treeinfo_repositories[i].enabled
        /\ treeinfo_repositories[i] \in Range(repositories)

\* C2 as claimed: when the list has a disabled treeinfo repository named N,
\* every new treeinfo repository named N is in the result with
\* enabled = FALSE, also when it was generated with enabled = TRUE.
C2_DisabledStaysDisabledAlways ==
    [][IsUpdateStep =>
        LET treeinfo == GenerateTreeinfo(treeinfo_md')
        IN \A i \in DOMAIN treeinfo :
            HasDisabledTreeinfo(repositories, treeinfo[i].name) =>
                [treeinfo[i] EXCEPT !.enabled = FALSE] \in Range(repositories')]_vars

\* C2 as amended: when the list has a disabled treeinfo repository named N,
\* every new treeinfo repository named N whose url is not the non-empty url
\* of a repository of another origin is in the result with enabled = FALSE,
\* and the result has no enabled treeinfo repository named N.
C2_DisabledStaysDisabled ==
    [][IsUpdateStep =>
        LET treeinfo == GenerateTreeinfo(treeinfo_md')
        IN \A i \in DOMAIN treeinfo :
            HasDisabledTreeinfo(repositories, treeinfo[i].name) =>
                /\ (treeinfo[i].url = "" \/ ~HasOtherWithUrl(repositories, treeinfo[i].url))
                    => [treeinfo[i] EXCEPT !.enabled = FALSE] \in Range(repositories')
                /\ \A k \in DOMAIN repositories' :
                    (/\ repositories'[k].origin = REPO_ORIGIN_TREEINFO
                     /\ repositories'[k].name = treeinfo[i].name)
                        => ~repositories'[k].enabled]_vars

\* An update disabled a treeinfo repository the tree enables and added it.
C2_Witness ==
    /\ passes = 1
    /\ \E i \in DOMAIN treeinfo_md :
        /\ treeinfo_md[i].enabled
        /\ ~treeinfo_repositories[i].enabled
        /\ treeinfo_repositories[i] \in Range(repositories)

\* C3 as claimed: a new treeinfo repository with the url of a repository of
\* another origin is not in the result.
C3_SameUrlDroppedAlways ==
    [][IsUpdateStep =>
        LET treeinfo == GenerateTreeinfo(treeinfo_md')
        IN \A i \in DOMAIN treeinfo :
            HasOtherWithUrl(repositories, treeinfo[i].url) =>
                \A k \in DOMAIN repositories' :
                    ~SameButEnabled(repositories'[k], treeinfo[i])]_vars

\* C3 as amended: a new treeinfo repository with the non-empty url of a
\* repository of another origin is not in the result.
C3_SameUrlDropped ==
    [][IsUpdateStep =>
        LET treeinfo == GenerateTreeinfo(treeinfo_md')
        IN \A i \in DOMAIN treeinfo :
            (treeinfo[i].url # "" /\ HasOtherWithUrl(repositories, treeinfo[i].url)) =>
                \A k \in DOMAIN repositories' :
                    ~SameButEnabled(repositories'[k], treeinfo[i])]_vars

\* An update dropped a treeinfo repository with the url of a user's
\* repository and added another one.
C3_Witness ==
    /\ passes = 1
    /\ \E i, j \in DOMAIN treeinfo_repositories :
        /\ treeinfo_repositories[i].url # ""
        /\ HasOtherWithUrl(repositories, treeinfo_repositories[i].url)
        /\ treeinfo_repositories[i] \notin Range(repositories)
        /\ treeinfo_repositories[j] \in Range(repositories)

-----------------------------------------------------------------------------
(* SpecPasses: one list updated from one tree after another.  Between the  *)
(* updates the user disables repositories of the list.                     *)

\* The repositories of the trees: every repository has its name and url.
PassMetadata ==
    {[name |-> "A", url |-> "u1", enabled |-> e] : e \in BOOLEAN}
        \cup {[name |-> "B", url |-> "u2", enabled |-> e] : e \in BOOLEAN}

\* The list before the first update: a repository of the user with the url
\* of a tree's repository, and treeinfo repositories of an earlier tree.
PassInitialRepositories ==
    {[RepoConfigurationData EXCEPT !.name = "mine", !.url = "u1"],
     generate_treeinfo_repository(BaseRepository,
        [name |-> "B", url |-> "u3", enabled |-> FALSE])}

PassesInit ==
    /\ repositories \in SeqsUpTo(PassInitialRepositories, MaxRepos)
    /\ treeinfo_md = <<>>
    /\ treeinfo_repositories = <<>>
    /\ passes = 0
    /\ NotReposInit

\* A tree is loaded and the list is updated with its treeinfo repositories.
UpdateFromNewTree ==
    \E mds \in SeqsUpTo(PassMetadata, MaxTreeinfo) :
        UpdateFrom(mds)

\* The user disables a repository of the list.
DisableRepository ==
    /\ \E i \in DOMAIN repositories :
        /\ repositories[i].enabled
        /\ repositories' = [repositories EXCEPT ![i].enabled = FALSE]
    /\ UNCHANGED <<treeinfo_md, treeinfo_repositories, passes>>
    /\ UNCHANGED notReposVars

PassesNext ==
    \/ UpdateFromNewTree
    \/ DisableRepository

SpecPasses == PassesInit /\ [][PassesNext]_vars

-----------------------------------------------------------------------------
(* Claims about update_treeinfo_repositories, under SpecPasses. *)

\* The treeinfo repositories of a list, in order.
TreeinfoOf(repos) ==
    SelectSeq(repos, LAMBDA r : r.origin = REPO_ORIGIN_TREEINFO)

\* The records of s are records of t, in the order of t, each record of t
\* at most once; the enabled flags are not compared.
RECURSIVE Embeds(_, _)
Embeds(s, t) ==
    IF s = <<>> THEN TRUE
    ELSE IF t = <<>> THEN FALSE
    ELSE IF SameButEnabled(Head(s), Head(t)) THEN Embeds(Tail(s), Tail(t))
    ELSE Embeds(s, Tail(t))

\* C4: after any sequence of updates, each from the previous result and a
\* freshly generated list, the treeinfo repositories of the list are
\* repositories of the latest generated list only, each at most once: none
\* of an earlier list or of the initial list is left.
C4_OnlyLatestTreeinfo ==
    passes >= 1 => Embeds(TreeinfoOf(repositories), treeinfo_repositories)

\* Two updates were made, the list had treeinfo repositories before the
\* last of them (one was disabled by then), and it has some now.
C4_Witness ==
    /\ passes >= 2
    /\ TreeinfoOf(repositories) # <<>>
    /\ Len(TreeinfoOf(repositories)) < Len(treeinfo_repositories)
    /\ \E i \in DOMAIN treeinfo_md :
        treeinfo_md[i].enabled /\ ~treeinfo_repositories[i].enabled

-----------------------------------------------------------------------------
(* url.py: URLSourceModule *)

\* ProxyString(url=proxy) of pyanaconda.core.payload: the proxy urls it
\* parses; it raises ProxyStringError for the others.
WellFormedProxies == {"http://proxy:3128"}

ProxyStringParses(proxy) == proxy \in WellFormedProxies

\* Lines 163-171: _validate_proxy returns (TRUE) or raises (FALSE).
validate_proxy(proxy) ==
    IF ~Truthy(proxy) THEN TRUE ELSE ProxyStringParses(proxy)

\* Lines 173-175: _validate_url returns (TRUE) or raises (FALSE).
validate_url(url_type) ==
    url_type \in URL_TYPES

\* Signal.emit of pyanaconda.core.signal: the callbacks are called in the
\* order they were connected in, each with the emitted data; a callback
\* that reads the source's repo_configuration sees the stored record.
emit(callbacks, data, stored) ==
    [i \in DOMAIN callbacks |->
        [subscriber |-> callbacks[i], received |-> data, observed |-> stored]]

\* A bug: the record is stored before it is validated.
set_repo_configuration_StoresFirst(stored, callbacks, candidate) ==
    IF validate_url(candidate.type) /\ validate_proxy(candidate.proxy)
    THEN [raised |-> FALSE,
          repo_configuration |-> candidate,
          emitted |-> emit(callbacks, candidate, candidate)]
    ELSE [raised |-> TRUE,
          repo_configuration |-> candidate,
          emitted |-> <<>>]

\* A bug: the signal is emitted before the record is stored.
set_repo_configuration_EmitsFirst(stored, callbacks, candidate) ==
    IF validate_url(candidate.type) /\ validate_proxy(candidate.proxy)
    THEN [raised |-> FALSE,
          repo_configuration |-> candidate,
          emitted |-> emit(callbacks, candidate, stored)]
    ELSE [raised |-> TRUE,
          repo_configuration |-> stored,
          emitted |-> <<>>]

\* Lines 150-161: set_repo_configuration. The outcome of a call: whether
\* InvalidValueError was raised, the record stored after it and the
\* callbacks that were called during it.
set_repo_configuration(stored, callbacks, candidate) ==
    IF validate_url(candidate.type) /\ validate_proxy(candidate.proxy)
    THEN [raised |-> FALSE,
          repo_configuration |-> candidate,
          emitted |-> emit(callbacks, candidate, candidate)]
    ELSE [raised |-> TRUE,
          repo_configuration |-> stored,
          emitted |-> <<>>]

\* A bug: noverifyssl is taken for ssl_verification_enabled.
process_kickstart_KeepsNoverifyssl(data) ==
    [RepoConfigurationData EXCEPT
        !.url = IF Truthy(data.url) THEN data.url
                ELSE IF Truthy(data.mirrorlist) THEN data.mirrorlist
                ELSE IF Truthy(data.metalink) THEN data.metalink
                ELSE "",
        !.type = IF Truthy(data.url) THEN URL_TYPE_BASEURL
                 ELSE IF Truthy(data.mirrorlist) THEN URL_TYPE_MIRRORLIST
                 ELSE IF Truthy(data.metalink) THEN URL_TYPE_METALINK
                 ELSE URL_TYPE_BASEURL,
        !.proxy = data.proxy,
        !.ssl_verification_enabled = data.noverifyssl,
        !.ssl_configuration =
            [ca_cert_path |-> IF Truthy(data.sslcacert) THEN data.sslcacert ELSE "",
             client_cert_path |-> IF Truthy(data.sslclientcert) THEN data.sslclientcert ELSE "",
             client_key_path |-> IF Truthy(data.sslclientkey) THEN data.sslclientkey ELSE ""]]

\* Lines 85-101: the record process_kickstart builds from the kickstart data.
process_kickstart(data) ==
    LET typed ==
            IF Truthy(data.url)
            THEN [RepoConfigurationData EXCEPT
                    !.url = data.url, !.type = URL_TYPE_BASEURL]
            ELSE IF Truthy(data.mirrorlist)
            THEN [RepoConfigurationData EXCEPT
                    !.url = data.mirrorlist, !.type = URL_TYPE_MIRRORLIST]
            ELSE IF Truthy(data.metalink)
            THEN [RepoConfigurationData EXCEPT
                    !.url = data.metalink, !.type = URL_TYPE_METALINK]
            ELSE RepoConfigurationData
        or_empty(v) == IF Truthy(v) THEN v ELSE ""
    IN [typed EXCEPT
            !.proxy = data.proxy,
            !.ssl_verification_enabled = ~data.noverifyssl,
            !.ssl_configuration =
                [ca_cert_path |-> or_empty(data.sslcacert),
                 client_cert_path |-> or_empty(data.sslclientcert),
                 client_key_path |-> or_empty(data.sslclientkey)]]

\* Lines 105-120: the kickstart data after setup_kickstart.
setup_kickstart(config, data) ==
    LET typed ==
            IF config.type = URL_TYPE_BASEURL
            THEN [data EXCEPT !.url = config.url]
            ELSE IF config.type = URL_TYPE_MIRRORLIST
            THEN [data EXCEPT !.mirrorlist = config.url]
            ELSE IF config.type = URL_TYPE_METALINK
            THEN [data EXCEPT !.metalink = config.url]
            ELSE data
    IN [typed EXCEPT
            !.proxy = config.proxy,
            !.noverifyssl = ~config.ssl_verification_enabled,
            !.sslcacert = config.ssl_configuration.ca_cert_path,
            !.sslclientcert = config.ssl_configuration.client_cert_path,
            !.sslclientkey = config.ssl_configuration.client_key_path,
            !.seen = TRUE]

-----------------------------------------------------------------------------
(* The operations of the URL source module. *)

\* The callbacks that can be connected to repo_configuration_changed.
Callbacks == {"interface", "payload", "spoke"}

\* self.repo_configuration_changed.connect(callback)
Connect(callback) ==
    /\ Len(subscribers) < MaxSubscribers
    /\ callback \notin Range(subscribers)
    /\ subscribers' = Append(subscribers, callback)
    /\ last_op' = "connect"
    /\ UNCHANGED <<repo_configuration, notifications, set_result, ks_data, ks_state>>
    /\ UNCHANGED notUrlVars

\* What a set_repo_configuration call does to the source module.
CallSetRepoConfiguration(candidate) ==
    LET outcome == set_repo_configuration(repo_configuration, subscribers, candidate)
    IN /\ repo_configuration' = outcome.repo_configuration
       /\ notifications' = outcome.emitted
       /\ set_result' = IF outcome.raised THEN "InvalidValueError" ELSE "ok"

\* source.set_repo_configuration(candidate)
SetRepoConfiguration(candidate) ==
    /\ CallSetRepoConfiguration(candidate)
    /\ last_op' = "set_repo_configuration"
    /\ ks_state' = IF ks_state = "fresh" THEN "fresh" ELSE "other"
    /\ UNCHANGED <<subscribers, ks_data>>
    /\ UNCHANGED notUrlVars

\* The kickstart parser creates new data of the url command.
NewKickstartData ==
    /\ ks_data' = FreshKickstartData
    /\ ks_state' = "fresh"
    /\ last_op' = "new_kickstart_data"
    /\ UNCHANGED <<repo_configuration, subscribers, notifications, set_result>>
    /\ UNCHANGED notUrlVars

\* source.setup_kickstart(data)
SetupKickstart ==
    /\ ks_data' = setup_kickstart(repo_configuration, ks_data)
    /\ ks_state' = IF ks_state = "fresh" THEN "exported" ELSE "other"
    /\ last_op' = "setup_kickstart"
    /\ UNCHANGED <<repo_configuration, subscribers, notifications, set_result>>
    /\ UNCHANGED notUrlVars

\* source.process_kickstart(data)
ProcessKickstart ==
    /\ CallSetRepoConfiguration(process_kickstart(ks_data))
    /\ ks_state' = IF ks_state = "exported" THEN "imported" ELSE "other"
    /\ last_op' = "process_kickstart"
    /\ UNCHANGED <<subscribers, ks_data>>
    /\ UNCHANGED notUrlVars

-----------------------------------------------------------------------------
(* SpecURLSource: callbacks are connected and configurations are set. *)

\* The records set_repo_configuration is called with: of every type, and
\* of a type that is none; without a proxy, with one, and with a proxy
\* that is no url.
SourceCandidates ==
    {[RepoConfigurationData EXCEPT !.url = u, !.type = t, !.proxy = p]
        : u \in {"", "http://repo"},
          t \in URL_TYPES \cup {"BOGUS"},
          p \in {"", "http://proxy:3128", "not a url"}}

URLSourceInit ==
    /\ UrlIdle
    /\ NotUrlInit

URLSourceNext ==
    \/ \E callback \in Callbacks : Connect(callback)
    \/ \E candidate \in SourceCandidates : SetRepoConfiguration(candidate)

SpecURLSource == URLSourceInit /\ [][URLSourceNext]_vars

-----------------------------------------------------------------------------
(* Claims about set_repo_configuration, under SpecURLSource. *)

\* The type is none of the three, or the proxy is not empty and no url.
IsInvalidCandidate(c) ==
    \/ c.type \notin {"BASEURL", "MIRRORLIST", "METALINK"}
    \/ (c.proxy # "" /\ c.proxy # "http://proxy:3128")

\* C5: set_repo_configuration with a candidate of a type that is none of
\* BASEURL, MIRRORLIST and METALINK, or with a non-empty malformed proxy,
\* fails with InvalidValueError, leaves the stored record as it was and
\* calls no callback, after any earlier successful and failed calls.
C5_InvalidLeavesUnchanged ==
    [][\A c \in SourceCandidates :
        (SetRepoConfiguration(c) /\ IsInvalidCandidate(c)) =>
            /\ set_result' = "InvalidValueError"
            /\ repo_configuration' = repo_configuration
            /\ notifications' = <<>>]_vars

\* A call failed on a source that holds a record set earlier and has
\* callbacks connected.
C5_Witness ==
    /\ last_op = "set_repo_configuration"
    /\ set_result = "InvalidValueError"
    /\ repo_configuration # RepoConfigurationData
    /\ subscribers # <<>>
    /\ notifications = <<>>

\* C6: a successful set_repo_configuration call calls every connected
\* callback once, in the order of the connections, with the new record,
\* after the stored record was replaced: a callback that reads the stored
\* record sees the new record.
C6_NotifiesInOrder ==
    [][\A c \in SourceCandidates :
        (SetRepoConfiguration(c) /\ set_result' = "ok") =>
            /\ repo_configuration' = c
            /\ notifications' =
                [i \in DOMAIN subscribers |->
                    [subscriber |-> subscribers[i], received |-> c, observed |-> c]]]_vars

\* A call replaced a record set earlier and two callbacks were called.
C6_Witness ==
    /\ last_op = "set_repo_configuration"
    /\ set_result = "ok"
    /\ Len(notifications) >= 2
    /\ notifications[1].subscriber # notifications[2].subscriber
    /\ repo_configuration.type = URL_TYPE_METALINK
    /\ repo_configuration.proxy # ""

-----------------------------------------------------------------------------
(* SpecKickstart: configurations are set, written to kickstart data and    *)
(* read from kickstart data.                                               *)

\* The valid records the source is given.
KickstartConfigurations ==
    {[RepoConfigurationData EXCEPT
        !.url = u, !.type = t, !.proxy = p,
        !.ssl_verification_enabled = v,
        !.ssl_configuration = s]
        : u \in {"", "http://repo"},
          t \in URL_TYPES,
          p \in {"", "http://proxy:3128"},
          v \in BOOLEAN,
          s \in {[ca_cert_path |-> "", client_cert_path |-> "", client_key_path |-> ""],
                 [ca_cert_path |-> "/ca", client_cert_path |-> "/cert",
                  client_key_path |-> "/key"]}}

KickstartInit ==
    /\ UrlIdle
    /\ NotUrlInit

KickstartNext ==
    \/ \E candidate \in KickstartConfigurations : SetRepoConfiguration(candidate)
    \/ NewKickstartData
    \/ SetupKickstart
    \/ ProcessKickstart

SpecKickstart == KickstartInit /\ [][KickstartNext]_vars

-----------------------------------------------------------------------------
(* Claims about the kickstart conversion, under SpecKickstart. *)

\* Two records equal in url, type, proxy and the ssl fields.
SameSource(c1, c2) ==
    /\ c1.url = c2.url
    /\ c1.type = c2.type
    /\ c1.proxy = c2.proxy
    /\ c1.ssl_verification_enabled = c2.ssl_verification_enabled
    /\ c1.ssl_configuration.ca_cert_path = c2.ssl_configuration.ca_cert_path
    /\ c1.ssl_configuration.client_cert_path = c2.ssl_configuration.client_cert_path
    /\ c1.ssl_configuration.client_key_path = c2.ssl_configuration.client_key_path

\* A step that reads the kickstart data the stored record was written to,
\* the data being new before that.
IsRoundTripStep ==
    /\ ks_state = "exported"
    /\ ks_state' = "imported"

\* C7 as claimed: for every valid stored record, of every url and the
\* empty url too, setup_kickstart into new kickstart data followed by
\* process_kickstart of that data stores a record equal to the original in
\* url, type, proxy and the ssl fields.
C7_RoundTripAlways ==
    [][IsRoundTripStep =>
        /\ set_result' = "ok"
        /\ SameSource(repo_configuration', repo_configuration)]_vars

\* C7 as amended: the same for every valid stored record whose url is not
\* empty.
C7_RoundTrip ==
    [][(IsRoundTripStep /\ repo_configuration.url # "") =>
        /\ set_result' = "ok"
        /\ SameSource(repo_configuration', repo_configuration)]_vars

\* A metalink with a proxy, without ssl verification and with certificates
\* went into new kickstart data and back.
C7_Witness ==
    /\ ks_state = "imported"
    /\ repo_configuration.type = URL_TYPE_METALINK
    /\ repo_configuration.url # ""
    /\ repo_configuration.proxy # ""
    /\ ~repo_configuration.ssl_verification_enabled
    /\ repo_configuration.ssl_configuration.client_key_path = "/key"
    /\ ks_data.metalink = repo_configuration.url
    /\ ks_data.url = None

-----------------------------------------------------------------------------
(* Claims about setup_kickstart, under SpecKickstart. *)

\* The fields among url, mirrorlist and metalink that hold a value.
PopulatedFields(data) ==
    {f \in {"url", "mirrorlist", "metalink"} : Truthy(data[f])}

\* The field setup_kickstart writes the url of a record of this type to.
FieldOfType(type) ==
    IF type = URL_TYPE_BASEURL THEN "url"
    ELSE IF type = URL_TYPE_MIRRORLIST THEN "mirrorlist"
    ELSE "metalink"

\* C11: after every setup_kickstart, a repeated one into the same kickstart
\* data after the type of the source changed included, no field among url,
\* mirrorlist and metalink other than the one of the current type holds a
\* value.
C11_OnlyMatchingFieldPopulated ==
    last_op = "setup_kickstart" =>
        PopulatedFields(ks_data) \subseteq {FieldOfType(repo_configuration.type)}

-----------------------------------------------------------------------------
(* repositories.py: generate_driver_disk_repositories *)

\* Line 34: the default of the parameter path.
DefaultPath == "/run/install"

\* os.path.isdir(repo_path): no directory has an index above the highest.
IsDir(dirs, i) ==
    i \in DOMAIN dirs /\ dirs[i].isdir

\* Line 51: repo_name.
DriverDiskName(i) ==
    "DD-" \o ToString(i)

\* Line 52: repo_path.
DriverDiskPath(path, i) ==
    path \o "/" \o DriverDiskName(i)

\* A bug: the url is the bare path.
DriverDiskRepoWithoutScheme(path, i) ==
    [RepoConfigurationData EXCEPT
        !.name = DriverDiskName(i),
        !.url = DriverDiskPath(path, i)]

\* Lines 68-70: the repo configuration of DD-i.
DriverDiskRepo(path, i) ==
    [RepoConfigurationData EXCEPT
        !.name = DriverDiskName(i),
        !.url = "file://" \o DriverDiskPath(path, i)]

\* A bug: a directory without RPMs ends the loop.
LoopBranchStopsWithoutRpms(dirs, i) ==
    IF ~IsDir(dirs, i) THEN "break"
    ELSE IF ~dirs[i].rpms THEN "break"
    ELSE IF ~dirs[i].repodata THEN "createrepo"
    ELSE "append"

\* Lines 55-65: what the loop body does for the index i.
LoopBranch(dirs, i) ==
    IF ~IsDir(dirs, i) THEN "break"
    ELSE IF ~dirs[i].rpms THEN "continue"
    ELSE IF ~dirs[i].repodata THEN "createrepo"
    ELSE "append"

\* Lines 43-50: the call begins.
CallGenerateDriverDiskRepositories ==
    /\ dd_pc # "scan"
    /\ dd_layout' = dd_dirs
    /\ dd_repositories' = <<>>
    /\ dd_checked' = {}
    /\ createrepo_calls' = <<>>
    /\ IF ~can_use_driver_disks
       THEN /\ dd_pc' = "done"
            /\ dd_result' = <<>>
            /\ dd_i' = 0
       ELSE /\ dd_pc' = "scan"
            /\ dd_result' = <<>>
            /\ dd_i' = 1
    /\ UNCHANGED <<can_use_driver_disks, dd_dirs>>
    /\ UNCHANGED notDdVars

\* A bug: a failure of createrepo_c is not noticed and the record is added.
LoopPassSwallowsFailure(exec) ==
    /\ dd_pc = "scan"
    /\ dd_checked' = dd_checked \cup {dd_i}
    /\ LET branch == LoopBranch(dd_dirs, dd_i)
           path == DriverDiskPath(DefaultPath, dd_i)
       IN CASE branch = "break" ->
                /\ exec = "none"
                /\ dd_pc' = "done"
                /\ dd_result' = dd_repositories
                /\ UNCHANGED <<dd_dirs, dd_i, dd_repositories, createrepo_calls>>
            [] branch = "continue" ->
                /\ exec = "none"
                /\ dd_i' = dd_i + 1
                /\ UNCHANGED <<dd_dirs, dd_pc, dd_repositories, dd_result,
                               createrepo_calls>>
            [] branch = "append" ->
                /\ exec = "none"
                /\ dd_repositories' =
                        Append(dd_repositories, DriverDiskRepo(DefaultPath, dd_i))
                /\ dd_i' = dd_i + 1
                /\ UNCHANGED <<dd_dirs, dd_pc, dd_result, createrepo_calls>>
            [] branch = "createrepo" /\ exec = "created" ->
                /\ createrepo_calls' = Append(createrepo_calls, path)
                /\ dd_dirs' = [dd_dirs EXCEPT ![dd_i].repodata = TRUE]
                /\ dd_repositories' =
                        Append(dd_repositories, DriverDiskRepo(DefaultPath, dd_i))
                /\ dd_i' = dd_i + 1
                /\ UNCHANGED <<dd_pc, dd_result>>
            [] branch = "createrepo" /\ exec = "raised" ->
                /\ createrepo_calls' = Append(createrepo_calls, path)
                /\ dd_repositories' =
                        Append(dd_repositories, DriverDiskRepo(DefaultPath, dd_i))
                /\ dd_i' = dd_i + 1
                /\ UNCHANGED <<dd_dirs, dd_pc, dd_result>>
            [] OTHER -> FALSE
    /\ UNCHANGED <<can_use_driver_disks, dd_layout>>
    /\ UNCHANGED notDdVars

\* Lines 50-73: one pass of the loop, and the return after the last one.
\* execWithRedirect("createrepo_c", ...) writes the repodata, or it fails
\* and the failure leaves the function.
LoopPass(exec) ==
    /\ dd_pc = "scan"
    /\ dd_checked' = dd_checked \cup {dd_i}
    /\ LET branch == LoopBranch(dd_dirs, dd_i)
           path == DriverDiskPath(DefaultPath, dd_i)
       IN CASE branch = "break" ->
                /\ exec = "none"
                /\ dd_pc' = "done"
                /\ dd_result' = dd_repositories
                /\ UNCHANGED <<dd_dirs, dd_i, dd_repositories, createrepo_calls>>
            [] branch = "continue" ->
                /\ exec = "none"
                /\ dd_i' = dd_i + 1
                /\ UNCHANGED <<dd_dirs, dd_pc, dd_repositories, dd_result,
                               createrepo_calls>>
            [] branch = "append" ->
                /\ exec = "none"
                /\ dd_repositories' =
                        Append(dd_repositories, DriverDiskRepo(DefaultPath, dd_i))
                /\ dd_i' = dd_i + 1
                /\ UNCHANGED <<dd_dirs, dd_pc, dd_result, createrepo_calls>>
            [] branch = "createrepo" /\ exec = "created" ->
                /\ createrepo_calls' = Append(createrepo_calls, path)
                /\ dd_dirs' = [dd_dirs EXCEPT ![dd_i].repodata = TRUE]
                /\ dd_repositories' =
                        Append(dd_repositories, DriverDiskRepo(DefaultPath, dd_i))
                /\ dd_i' = dd_i + 1
                /\ UNCHANGED <<dd_pc, dd_result>>
            [] branch = "createrepo" /\ exec = "raised" ->
                /\ createrepo_calls' = Append(createrepo_calls, path)
                /\ dd_pc' = "failed"
                /\ UNCHANGED <<dd_dirs, dd_i, dd_repositories, dd_result>>
            [] OTHER -> FALSE
    /\ UNCHANGED <<can_use_driver_disks, dd_layout>>
    /\ UNCHANGED notDdVars

-----------------------------------------------------------------------------
(* SpecDriverDisks: the function is called on every layout of directories. *)

\* A directory that is missing, or one with or without RPMs and repodata.
DriverDiskDirs ==
    {[isdir |-> FALSE, rpms |-> FALSE, repodata |-> FALSE]}
        \cup [isdir : {TRUE}, rpms : BOOLEAN, repodata : BOOLEAN]

DriverDisksInit ==
    /\ can_use_driver_disks \in BOOLEAN
    /\ dd_dirs \in [1..MaxDriverDisks -> DriverDiskDirs]
    /\ dd_layout = <<>>
    /\ dd_pc = "idle"
    /\ dd_i = 0
    /\ dd_repositories = <<>>
    /\ dd_result = <<>>
    /\ dd_checked = {}
    /\ createrepo_calls = <<>>
    /\ NotDdInit

RunLoop ==
    \E exec \in {"none", "created", "raised"} : LoopPass(exec)

DriverDisksNext ==
    \/ CallGenerateDriverDiskRepositories
    \/ RunLoop

\* A call that began goes on: the function is sequential code.
SpecDriverDisks ==
    DriverDisksInit /\ [][DriverDisksNext]_vars /\ WF_vars(RunLoop)

-----------------------------------------------------------------------------
(* Claims about generate_driver_disk_repositories, under SpecDriverDisks. *)

\* The path holds exactly the directories DD-1..DD-n, each with RPMs and
\* with repodata.
HoldsExactly(dirs, n) ==
    \A i \in DOMAIN dirs :
        IF i <= n
        THEN dirs[i].isdir /\ dirs[i].rpms /\ dirs[i].repodata
        ELSE ~dirs[i].isdir

\* The record expected for DD-i under the default path.
ExpectedDriverDisk(i) ==
    [name |-> "DD-" \o ToString(i),
     url |-> "file:///run/install/DD-" \o ToString(i),
     type |-> "BASEURL",
     origin |-> "USER",
     enabled |-> TRUE,
     installation_enabled |-> FALSE,
     proxy |-> "",
     ssl_verification_enabled |-> TRUE,
     ssl_configuration |-> [ca_cert_path |-> "",
                            client_cert_path |-> "",
                            client_key_path |-> ""]]

\* C8: with driver disks allowed, the scan of a path that holds exactly the
\* directories DD-1..DD-n, each with an RPM and with repodata, returns
\* exactly the n records DD-1..DD-n with the urls file://<path>/DD-<i>, in
\* the order of the indices, and createrepo_c is never run.
C8_CompleteDriverDisks ==
    \A n \in 0..Len(dd_layout) :
        (can_use_driver_disks /\ HoldsExactly(dd_layout, n)) =>
            /\ dd_pc \in {"scan", "done", "failed"} =>
                (createrepo_calls = <<>> /\ dd_pc # "failed")
            /\ dd_pc = "done" =>
                (/\ Len(dd_result) = n
                 /\ \A i \in 1..n : dd_result[i] = ExpectedDriverDisk(i))

\* A scan of a path that holds three such directories returned.
C8_Witness ==
    /\ can_use_driver_disks
    /\ dd_pc = "done"
    /\ HoldsExactly(dd_layout, 3)
    /\ Len(dd_result) = 3

\* The smallest index whose directory is missing.
FirstMissing(dirs) ==
    CHOOSE m \in 1..(Len(dirs) + 1) :
        /\ ~(m \in DOMAIN dirs /\ dirs[m].isdir)
        /\ \A k \in 1..(m - 1) : dirs[k].isdir

\* The names DD-i of the indices from i up to m - 1 that have an RPM.
RECURSIVE NamesWithRpms(_, _, _)
NamesWithRpms(dirs, i, m) ==
    IF i >= m THEN <<>>
    ELSE (IF dirs[i].rpms THEN <<"DD-" \o ToString(i)>> ELSE <<>>)
            \o NamesWithRpms(dirs, i + 1, m)

\* What C9 says of a state.
C9_ScanResult ==
    LET m == FirstMissing(dd_layout)
    IN can_use_driver_disks =>
        /\ dd_pc \in {"scan", "done", "failed"} => dd_checked \subseteq 1..m
        /\ dd_pc = "done" =>
            /\ dd_checked = 1..m
            /\ [j \in DOMAIN dd_result |-> dd_result[j].name]
                    = NamesWithRpms(dd_layout, 1, m)

-----------------------------------------------------------------------------
(* Claims about a failure of createrepo_c, under SpecDriverDisks. *)

\* The indices createrepo_c was run on and left without repodata.
FailedCreaterepo ==
    {k \in DOMAIN dd_dirs :
        /\ \E c \in DOMAIN createrepo_calls :
                createrepo_calls[c] = DriverDiskPath(DefaultPath, k)
        /\ ~dd_dirs[k].repodata}

\* C12: when createrepo_c fails for DD-k the failure leaves the function:
\* the call does not return, so nothing is returned, the records collected
\* for lower indices included, and no record of DD-k or of a directory of
\* a higher index is made.
C12_FailurePropagates ==
    \A k \in FailedCreaterepo :
        /\ dd_pc = "failed"
        /\ dd_result = <<>>
        /\ dd_i = k
        /\ \A r \in DOMAIN dd_repositories :
                \E j \in 1..(k - 1) : dd_repositories[r].name = DriverDiskName(j)
        /\ dd_checked \subseteq 1..k

\* createrepo_c failed for DD-2 after the record of DD-1 was collected,
\* with a directory DD-3 that has RPMs.
C12_Witness ==
    /\ FailedCreaterepo = {2}
    /\ dd_pc = "failed"
    /\ Len(dd_repositories) = 1
    /\ dd_repositories[1].name = "DD-1"
    /\ dd_dirs[3].isdir /\ dd_dirs[3].rpms

-----------------------------------------------------------------------------
(* helpers.py: SourceSwitchHandler *)

\* pyanaconda.core.constants
SOURCE_TYPE_HDD == "HDD"
SOURCE_TYPE_URL == "URL"
SOURCE_TYPE_NFS == "NFS"
SOURCE_TYPE_CDROM == "CDROM"
SOURCE_TYPE_HMC == "HMC"
SOURCE_TYPE_CLOSEST_MIRROR == "CLOSEST_MIRROR"

\* The payload, the storage and the calls made so far, as the functions of
\* pyanaconda.ui.lib see and change them.
World(srcs, protected, calls) ==
    [sources |-> srcs, protected_devices |-> protected, calls |-> calls]

Called(w, op, arg) ==
    [w EXCEPT !.calls = Append(@, [op |-> op, arg |-> arg])]

\* create_source(source_type): a new source that is not set up.
create_source(source_type) ==
    [Type |-> source_type,
     Partition |-> "",
     Directory |-> "",
     RepoConfiguration |-> RepoConfigurationData,
     URL |-> "",
     UpdatesEnabled |-> FALSE,
     ready |-> FALSE]

\* set_source(payload_proxy, source_proxy): the source is the only one
\* attached to the payload.
set_source(w, source) ==
    [Called(w, "set_source", source.Type) EXCEPT !.sources = <<source>>]

\* payload.get_source_proxy(): the first source of the payload; a payload
\* without a source gets a default one.
get_source_proxy(w) ==
    IF w.sources = <<>>
    THEN [w EXCEPT !.sources = <<create_source(SOURCE_TYPE_CLOSEST_MIRROR)>>]
    ELSE w

\* tear_down_sources(payload_proxy): every attached source is torn down.
tear_down_sources(w) ==
    [Called(w, "tear_down_sources", "") EXCEPT
        !.sources = [i \in DOMAIN w.sources |-> [w.sources[i] EXCEPT !.ready = FALSE]]]

\* mark_protected_device(spec) and unmark_protected_device(spec).
mark_protected_device(w, spec) ==
    [Called(w, "mark_protected_device", spec) EXCEPT
        !.protected_devices = @ \cup {spec}]

unmark_protected_device(w, spec) ==
    [Called(w, "unmark_protected_device", spec) EXCEPT
        !.protected_devices = @ \ {spec}]

\* create_nfs_url(server, directory, opts) of pyanaconda.core.payload.
create_nfs_url(server, directory, opts) ==
    IF server = "" THEN ""
    ELSE IF opts # "" THEN "nfs:" \o opts \o ":" \o server \o ":" \o directory
    ELSE "nfs:" \o server \o ":" \o directory

\* A bug: the partition of the previous source stays protected.
tear_down_existing_source_KeepsProtected(w) ==
    tear_down_sources(get_source_proxy(w))

\* Lines 87-93: _tear_down_existing_source.
tear_down_existing_source(w) ==
    LET w1 == get_source_proxy(w)
        source_proxy == w1.sources[1]
        w2 == IF source_proxy.Type = SOURCE_TYPE_HDD /\ source_proxy.Partition # ""
              THEN unmark_protected_device(w1, source_proxy.Partition)
              ELSE w1
    IN tear_down_sources(w2)

\* Lines 95-113: set_source_hdd_iso.
set_source_hdd_iso(w, device_name, iso_path) ==
    LET w1 == tear_down_existing_source(w)
        new_source_proxy ==
            [create_source(SOURCE_TYPE_HDD) EXCEPT
                !.Partition = device_name,
                !.Directory = "/" \o iso_path]
        w2 == Called(w1, "create_source", SOURCE_TYPE_HDD)
        w3 == mark_protected_device(w2, device_name)
    IN set_source(w3, new_source_proxy)

\* Lines 115-130: set_source_url; proxy is None when it is not given.
set_source_url(w, url, url_type, proxy) ==
    LET w1 == tear_down_existing_source(w)
        repo_conf ==
            [RepoConfigurationData EXCEPT
                !.url = url,
                !.type = url_type,
                !.proxy = IF Truthy(proxy) THEN proxy ELSE ""]
        url_source_proxy ==
            [create_source(SOURCE_TYPE_URL) EXCEPT !.RepoConfiguration = repo_conf]
        w2 == Called(w1, "create_source", SOURCE_TYPE_URL)
    IN set_source(w2, url_source_proxy)

\* Lines 132-142: set_source_nfs.
set_source_nfs(w, server, directory, opts) ==
    LET w1 == tear_down_existing_source(w)
        nfs_url == create_nfs_url(server, directory, opts)
        nfs_source_proxy == [create_source(SOURCE_TYPE_NFS) EXCEPT !.URL = nfs_url]
        w2 == Called(w1, "create_source", SOURCE_TYPE_NFS)
    IN set_source(w2, nfs_source_proxy)

\* Lines 144-151: set_source_cdrom.
set_source_cdrom(w) ==
    LET w1 == tear_down_existing_source(w)
        w2 == Called(w1, "create_source", SOURCE_TYPE_CDROM)
    IN set_source(w2, create_source(SOURCE_TYPE_CDROM))

\* Lines 153-160: set_source_hmc.
set_source_hmc(w) ==
    LET w1 == tear_down_existing_source(w)
        w2 == Called(w1, "create_source", SOURCE_TYPE_HMC)
    IN set_source(w2, create_source(SOURCE_TYPE_HMC))

\* Lines 162-170: set_source_closest_mirror.
set_source_closest_mirror(w, updates_enabled) ==
    LET w1 == tear_down_existing_source(w)
        repo_files_source_proxy ==
            [create_source(SOURCE_TYPE_CLOSEST_MIRROR) EXCEPT
                !.UpdatesEnabled = updates_enabled]
        w2 == Called(w1, "create_source", SOURCE_TYPE_CLOSEST_MIRROR)
    IN set_source(w2, repo_files_source_proxy)

-----------------------------------------------------------------------------
(* The operations of the source switching. *)

\* The world a set_source_* call begins in, and the world it leaves.
WorldNow == World(sources, protected_devices, <<>>)

Becomes(w) ==
    /\ sources' = w.sources
    /\ protected_devices' = w.protected_devices
    /\ switch_calls' = w.calls
    /\ UNCHANGED notSwitchVars

\* The partitions that host an ISO, and the ISO files.
Partitions == {"sda1", "sdb1"}
IsoPaths == {"a.iso", "dir/b.iso"}

SetSourceHddIso ==
    \E device_name \in Partitions, iso_path \in IsoPaths :
        Becomes(set_source_hdd_iso(WorldNow, device_name, iso_path))

SetSourceUrl ==
    \E url \in {"http://repo", "ftp://mirror"}, url_type \in URL_TYPES,
       proxy \in {None, "http://proxy:3128"} :
        Becomes(set_source_url(WorldNow, url, url_type, proxy))

SetSourceNfs ==
    \E opts \in {"", "nolock"} :
        Becomes(set_source_nfs(WorldNow, "server", "/exports", opts))

SetSourceCdrom ==
    Becomes(set_source_cdrom(WorldNow))

SetSourceHmc ==
    Becomes(set_source_hmc(WorldNow))

SetSourceClosestMirror ==
    \E updates_enabled \in BOOLEAN :
        Becomes(set_source_closest_mirror(WorldNow, updates_enabled))

\* The payload sets up its source.
SetUpSources ==
    /\ sources # <<>>
    /\ \E i \in DOMAIN sources : ~sources[i].ready
    /\ sources' = [i \in DOMAIN sources |-> [sources[i] EXCEPT !.ready = TRUE]]
    /\ UNCHANGED <<protected_devices, switch_calls>>
    /\ UNCHANGED notSwitchVars

-----------------------------------------------------------------------------
(* SpecSourceSwitch: the user switches from source to source. *)

SourceSwitchInit ==
    /\ SwitchIdle
    /\ NotSwitchInit

SourceSwitchNext ==
    \/ SetSourceHddIso
    \/ SetSourceUrl
    \/ SetSourceNfs
    \/ SetSourceCdrom
    \/ SetSourceHmc
    \/ SetSourceClosestMirror
    \/ SetUpSources

SpecSourceSwitch == SourceSwitchInit /\ [][SourceSwitchNext]_vars

-----------------------------------------------------------------------------
(* Claims about SourceSwitchHandler, under SpecSourceSwitch. *)

\* The places of the calls of this name among the calls of the last
\* set_source_* call.
PlacesOf(op) ==
    {i \in DOMAIN switch_calls : switch_calls[i].op = op}

\* C10: after any sequence of set_source_* calls the sources of the payload
\* were torn down before the new source was set, exactly one source is
\* attached to the payload, and the only protected device is the partition
\* of that source when it is an HDD ISO source; no device is protected when
\* it is another source.
C10_OneSourceOneProtectedDevice ==
    switch_calls # <<>> =>
        /\ Len(sources) = 1
        /\ PlacesOf("set_source") = {Len(switch_calls)}
        /\ \E i \in PlacesOf("tear_down_sources") :
            /\ i < Len(switch_calls)
            /\ PlacesOf("unmark_protected_device") \subseteq 1..(i - 1)
            /\ PlacesOf("mark_protected_device") \subseteq (i + 1)..Len(switch_calls)
        /\ protected_devices =
            IF sources[1].Type = "HDD" THEN {sources[1].Partition} ELSE {}

\* The source was switched from the ISO of one partition to the ISO of
\* another one, and from there to a URL.
C10_Witness ==
    /\ Len(sources) = 1
    /\ sources[1].Type = "URL"
    /\ sources[1].ready
    /\ \E i \in DOMAIN switch_calls :
        /\ switch_calls[i].op = "unmark_protected_device"
        /\ switch_calls[i].arg = "sdb1"
    /\ protected_devices = {}

-----------------------------------------------------------------------------
(* helpers.py: InputCheck and InputCheckHandler *)

\* Lines 181 and 186: the status of a passed check, and the status of a
\* failed check that displays nothing.
CHECK_OK == None
CHECK_SILENT == ""

\* Lines 198-218: InputCheck.__init__; id stands for the identity of the
\* object.
InputCheck(id, input_obj) ==
    [id |-> id,
     input_obj |-> input_obj,
     check_status |-> None,
     enabled |-> TRUE]

\* Lines 284-302: the check list after add_check.
add_check(checks, input_obj) ==
    Append(checks, InputCheck(Len(checks) + 1, input_obj))

\* Lines 220-226: InputCheck.update_check_status, result being what
\* run_check returns; the check afterwards, and whether set_status is
\* called with it.
update_check_status(check, result) ==
    IF ~check.enabled
    THEN [check |-> check, set_status |-> FALSE]
    ELSE [check |-> [check EXCEPT !.check_status = result], set_status |-> TRUE]

\* A bug: the disabled checks that failed are included.
failed_checks_IncludesDisabled(checks) ==
    SelectSeq(checks, LAMBDA c : c.check_status # CHECK_OK)

\* Lines 304-308: InputCheckHandler.failed_checks.
failed_checks(checks) ==
    SelectSeq(checks, LAMBDA c : c.enabled /\ c.check_status # CHECK_OK)

\* Lines 310-314: InputCheckHandler.failed_checks_with_message.
failed_checks_with_message(checks) ==
    SelectSeq(checks,
              LAMBDA c : c.enabled /\ c.check_status \notin {CHECK_OK, CHECK_SILENT})

-----------------------------------------------------------------------------
(* The operations on the handler and on its checks. *)

\* The inputs of a screen, and what a run_check function returns.
InputObjects == {"entry"}
CheckResults == {CHECK_OK, CHECK_SILENT, "The value is not valid."}

\* handler.add_check(input_obj, run_check)
AddCheck ==
    /\ Len(check_list) < MaxChecks
    /\ \E input_obj \in InputObjects :
        check_list' = add_check(check_list, input_obj)
    /\ check_op' = [op |-> "add_check", check |-> Len(check_list) + 1]
    /\ UNCHANGED set_status_calls
    /\ UNCHANGED notCheckVars

\* check.update_check_status()
UpdateCheckStatus ==
    \E i \in DOMAIN check_list, result \in CheckResults :
        LET after == update_check_status(check_list[i], result)
        IN /\ after.set_status => Len(set_status_calls) < MaxSetStatus
           /\ check_list' = [check_list EXCEPT ![i] = after.check]
           /\ set_status_calls' =
                IF after.set_status
                THEN Append(set_status_calls, i)
                ELSE set_status_calls
           /\ check_op' = [op |-> "update_check_status", check |-> i]
           /\ UNCHANGED notCheckVars

\* Lines 239-241: check.enabled = value
SetEnabled ==
    \E i \in DOMAIN check_list, value \in BOOLEAN :
        /\ check_list' = [check_list EXCEPT ![i].enabled = value]
        /\ check_op' = [op |-> "enabled", check |-> i]
        /\ UNCHANGED set_status_calls
        /\ UNCHANGED notCheckVars

-----------------------------------------------------------------------------
(* SpecInputChecks: checks are added, run, disabled and enabled. *)

InputChecksInit ==
    /\ ChecksIdle
    /\ NotCheckInit

InputChecksNext ==
    \/ AddCheck
    \/ UpdateCheckStatus
    \/ SetEnabled

SpecInputChecks == InputChecksInit /\ [][InputChecksNext]_vars

-----------------------------------------------------------------------------
(* Claims about InputCheckHandler, under SpecInputChecks. *)

\* The ids of the checks of a sequence.
IdsOf(checks) ==
    {checks[i].id : i \in DOMAIN checks}

\* The checks of the sequence are different checks of the check list, in
\* the order they were added in.
InInsertionOrder(checks) ==
    /\ \A a \in DOMAIN checks :
        /\ checks[a].id \in DOMAIN check_list
        /\ checks[a] = check_list[checks[a].id]
    /\ \A a, b \in DOMAIN checks : a < b => checks[a].id < checks[b].id

\* The two subsets of the checks.
C13_FailedChecks ==
    LET failed == failed_checks(check_list)
        with_message == failed_checks_with_message(check_list)
    IN /\ InInsertionOrder(failed)
       /\ IdsOf(failed) =
            {i \in DOMAIN check_list :
                check_list[i].enabled /\ check_list[i].check_status # "<None>"}
       /\ InInsertionOrder(with_message)
       /\ IdsOf(with_message) =
            {i \in DOMAIN check_list :
                /\ check_list[i].enabled
                /\ check_list[i].check_status # "<None>"
                /\ check_list[i].check_status # ""}
       /\ IdsOf(with_message) \subseteq IdsOf(failed)
       /\ \A i \in DOMAIN check_list :
            ~check_list[i].enabled =>
                i \notin IdsOf(failed) \cup IdsOf(with_message)

\* A step that is update_check_status of a disabled check.
IsUpdateOfDisabled ==
    /\ check_op'.op = "update_check_status"
    /\ check_op'.check \in DOMAIN check_list
    /\ ~check_list[check_op'.check].enabled

\* C13: after any sequence of add_check, update_check_status and enabling
\* and disabling, failed_checks are exactly the enabled checks whose status
\* is not OK, in the order they were added in, and
\* failed_checks_with_message are exactly the enabled checks whose status
\* is neither OK nor the silent failure, so a part of failed_checks; a
\* disabled check is in neither; update_check_status of a disabled check
\* changes no status and does not call set_status.
C13_FailedChecksAreEnabledFailures ==
    /\ []C13_FailedChecks
    /\ [][IsUpdateOfDisabled =>
            /\ check_list' = check_list
            /\ set_status_calls' = set_status_calls]_vars

\* The first check failed with a message and was disabled, and was run
\* again; the second check fails silently.
C13_Witness ==
    /\ Len(check_list) = 2
    /\ ~check_list[1].enabled
    /\ check_list[1].check_status = "The value is not valid."
    /\ check_list[2].enabled
    /\ check_list[2].check_status = ""
    /\ check_op = [op |-> "update_check_status", check |-> 1]
    /\ IdsOf(failed_checks(check_list)) = {2}
    /\ failed_checks_with_message(check_list) = <<>>

=============================================================================
